---- MODULE Spec2Model ----
(***************************************************************************)
(* A model of the document portal of src/app.py: the remote/local tree     *)
(* synchronisation (pull_from_github), the on-demand LaTeX compilation     *)
(* (compile_latex), the submission of an edit (push_to_github) and the     *)
(* page scripts of src/app.py and src/app1.py, one action per run.         *)
(*                                                                         *)
(* A file or directory name is the sequence of its dot-separated pieces    *)
(* (notes.tex is <<"notes", "tex">>), a path is the sequence of its names, *)
(* a byte string is a sequence of numbers 0..255 and a text is a sequence  *)
(* of code points.                                                         *)
(***************************************************************************)
EXTENDS Integers, Sequences, FiniteSets, TLC

VARIABLES
    remote,      \* the remote repository and how its host answers
    diskFault,   \* the local filesystem operation that raises, if any
    local,       \* the local filesystem below the working directory
    last,        \* what the latest call of pull_from_github did and returned
    prevAfter,   \* the local tree the call before the latest one left, and its flag
    pulls,       \* number of calls of pull_from_github so far
    tempDir,     \* the PDFs in the temp build directory, by job name
    lastCompile, \* what the latest call of compile_latex got and returned
    compiles,    \* number of calls of compile_latex so far
    lastPush,    \* what the latest call of push_to_github did and returned
    pushes,      \* number of calls of push_to_github so far
    script,      \* the page script that serves the session
    session,     \* st.session_state
    lastRun,     \* what the latest run of the page script got and did
    runs         \* number of runs of the page script so far

vars == <<remote, diskFault, local, last, prevAfter, pulls,
          tempDir, lastCompile, compiles,
          lastPush, pushes, script, session, lastRun, runs>>
pushVars == <<lastPush, pushes>>
pageVars == <<script, session, lastRun, runs>>
syncVars == <<remote, diskFault, local, last, prevAfter, pulls>>
compileVars == <<tempDir, lastCompile, compiles>>

(***************************************************************************)
(* Bounds of the model.                                                    *)
(***************************************************************************)
MaxPulls == 2
MaxCompiles == 2
MaxPushes == 2

(***************************************************************************)
(* Names and paths.                                                        *)
(***************************************************************************)
nTopics == <<"topics">>
nYear == <<"year">>
nK == <<"Kinematics">>
n2023 == <<"2023">>
nOld == <<"Old">>
nNotes == <<"notes", "tex">>
nDiagram == <<"diagram", "png">>
nIntro == <<"intro", "tex">>
nGone == <<"gone", "tex">>

\* BASE_DIRS, in the iteration order of the dict: label -> folder name.
BASE_DIRS == << [label |-> "Topics", folder |-> <<nTopics>>],
                [label |-> "Year", folder |-> <<nYear>>] >>

Roots == {BASE_DIRS[i].folder : i \in 1..Len(BASE_DIRS)}

\* os.path.dirname on a relative path with at least one name.
Dirname(p) == SubSeq(p, 1, Len(p) - 1)

IsPrefix(p, q) == Len(p) <= Len(q) /\ SubSeq(q, 1, Len(p)) = p

\* p lies strictly below directory d.
Under(d, p) == IsPrefix(d, p) /\ p # d

(***************************************************************************)
(* The local filesystem: the directories that exist and the regular files  *)
(* with their bytes.                                                       *)
(***************************************************************************)
PathExists(fs, p) == p \in fs.dirs \/ p \in DOMAIN fs.files

\* shutil.rmtree(root) that raises: at once, or after the regular files below
\* root were removed and before a directory is.
RmtreeFaulting(fs, root, op) ==
    IF op = "rmtree_partial"
    THEN [fs EXCEPT !.files = [p \in {q \in DOMAIN fs.files : ~IsPrefix(root, q)} |-> fs.files[p]]]
    ELSE fs

\* Rmtree with a slip: only the directory and what lies directly in it go.
RmtreeTopOnly(fs, root) ==
    [dirs |-> {d \in fs.dirs : d # root /\ Dirname(d) # root},
     files |-> [p \in {q \in DOMAIN fs.files : Dirname(q) # root} |-> fs.files[p]]]

\* shutil.rmtree(root): the directory and everything below it.
Rmtree(fs, root) ==
    [dirs |-> {d \in fs.dirs : ~IsPrefix(root, d)},
     files |-> [p \in {q \in DOMAIN fs.files : ~IsPrefix(root, q)} |-> fs.files[p]]]

\* os.makedirs(path, exist_ok=True): the directory and all its parents.
Makedirs(fs, path) ==
    [fs EXCEPT !.dirs = @ \cup {SubSeq(path, 1, i) : i \in 1..Len(path)}]

\* open(path, "wb").write(bytes): creates or truncates the file.
WriteFile(fs, path, bytes) ==
    [fs EXCEPT !.files = (path :> bytes) @@ @]

FilesUnder(fs, root) == {p \in DOMAIN fs.files : Under(root, p)}
DirsUnder(fs, root) == {d \in fs.dirs : Under(root, d)}

\* The part of the tree at and below root.
Subtree(fs, root) ==
    [dirs |-> {d \in fs.dirs : IsPrefix(root, d)},
     files |-> [p \in {q \in DOMAIN fs.files : IsPrefix(root, q)} |-> fs.files[p]]]

(***************************************************************************)
(* The remote repository.  A remote file is described by what the host's   *)
(* API gives for it: the declared encoding, the raw content field (which   *)
(* may be absent) and the result of reading decoded_content, which is a    *)
(* byte string or raises.                                                  *)
(***************************************************************************)
EncAbsent == "<absent>"

Absent == [present |-> FALSE, encoding |-> EncAbsent, hasContent |-> FALSE,
           content |-> <<>>, decodeRaises |-> TRUE, decoded |-> <<>>]

\* base64, text "YQ==", payload "a"
KB64 == [present |-> TRUE, encoding |-> "base64", hasContent |-> TRUE,
         content |-> <<89, 81, 61, 61>>, decodeRaises |-> FALSE, decoded |-> <<97>>]
\* base64, text "/w==", payload the byte 255
KB64Bin == [present |-> TRUE, encoding |-> "base64", hasContent |-> TRUE,
            content |-> <<47, 119, 61, 61>>, decodeRaises |-> FALSE, decoded |-> <<255>>]
\* base64 declared, but reading the payload raises
KB64Fault == [present |-> TRUE, encoding |-> "base64", hasContent |-> TRUE,
              content |-> <<33>>, decodeRaises |-> TRUE, decoded |-> <<>>]
\* encoding "none" and no content field (what the host gives for a large file)
KNoneNull == [present |-> TRUE, encoding |-> "none", hasContent |-> FALSE,
              content |-> <<>>, decodeRaises |-> FALSE, decoded |-> <<0>>]
\* encoding "none", raw text "e-acute"
KNoneText == [present |-> TRUE, encoding |-> "none", hasContent |-> TRUE,
              content |-> <<233>>, decodeRaises |-> FALSE, decoded |-> <<0>>]
\* no encoding declared, raw text "a"
KEncAbsent == [present |-> TRUE, encoding |-> EncAbsent, hasContent |-> TRUE,
               content |-> <<97>>, decodeRaises |-> TRUE, decoded |-> <<>>]
\* another declared encoding whose payload can be read
KOther == [present |-> TRUE, encoding |-> "utf-8", hasContent |-> TRUE,
           content |-> <<98>>, decodeRaises |-> FALSE, decoded |-> <<7>>]
\* another declared encoding whose payload cannot be read
KOtherFault == [present |-> TRUE, encoding |-> "utf-8", hasContent |-> TRUE,
                content |-> <<98>>, decodeRaises |-> TRUE, decoded |-> <<>>]

pTopicsNotes == <<nTopics, nK, nNotes>>
pTopicsDiagram == <<nTopics, nK, nDiagram>>
pTopicsIntro == <<nTopics, nIntro>>
pYearNotes == <<nYear, n2023, nNotes>>

\* The files the remote repository may hold, and what each may be.
RemoteFilePaths == {pTopicsNotes, pTopicsDiagram, pTopicsIntro, pYearNotes}

KindsAt(p) ==
    CASE p = pTopicsNotes -> {Absent, KB64}
      [] p = pTopicsDiagram -> {Absent, KB64Bin, KB64Fault}
      [] p = pTopicsIntro -> {Absent, KNoneNull, KNoneText, KEncAbsent}
      [] p = pYearNotes -> {Absent, KB64, KOther, KOtherFault}

RemoteDirPaths == {Dirname(p) : p \in RemoteFilePaths}
                    \cup {Dirname(Dirname(p)) : p \in {q \in RemoteFilePaths : Len(q) > 2}}

\* The names below a directory, in the order the host lists them (by name).
ChildNames(d) ==
    CASE d = <<nTopics>> -> <<nK, nIntro>>
      [] d = <<nTopics, nK>> -> <<nDiagram, nNotes>>
      [] d = <<nYear>> -> <<n2023>>
      [] d = <<nYear, n2023>> -> <<nNotes>>
      [] OTHER -> <<>>

\* A directory exists remotely exactly when a file lies below it.
RemoteDirExists(r, d) == \E p \in RemoteFilePaths : r.files[p].present /\ Under(d, p)

RemoteExists(r, p) ==
    IF p \in RemoteFilePaths THEN r.files[p].present ELSE RemoteDirExists(r, p)

\* The content entry the host returns for a path.
EntryOf(r, p) ==
    IF p \in RemoteFilePaths
    THEN [path |-> p, type |-> "file", encoding |-> r.files[p].encoding,
          hasContent |-> r.files[p].hasContent, content |-> r.files[p].content,
          decodeRaises |-> r.files[p].decodeRaises, decoded |-> r.files[p].decoded]
    ELSE [path |-> p, type |-> "dir", encoding |-> EncAbsent,
          hasContent |-> FALSE, content |-> <<>>,
          decodeRaises |-> TRUE, decoded |-> <<>>]

RECURSIVE ListFrom(_, _, _)
ListFrom(r, d, names) ==
    IF names = <<>> THEN <<>>
    ELSE LET p == Append(d, Head(names))
         IN (IF RemoteExists(r, p) THEN <<EntryOf(r, p)>> ELSE <<>>)
              \o ListFrom(r, d, Tail(names))

\* repo.get_contents(dir, ref=branch): the entries of the directory, or a fault:
\* the directory is not in the repository, or the request itself fails
\* (network, credentials, rate limit).
GetContents(r, d) ==
    IF d \in r.listFault
    THEN [raised |-> TRUE, why |-> "request failed", entries |-> <<>>]
    ELSE IF ~RemoteDirExists(r, d)
    THEN [raised |-> TRUE, why |-> "not found", entries |-> <<>>]
    ELSE [raised |-> FALSE, why |-> "", entries |-> ListFrom(r, d, ChildNames(d))]

\* str.encode('utf-8') on a text of code points below 2048.
RECURSIVE Utf8Encode(_)
Utf8Encode(text) ==
    IF text = <<>> THEN <<>>
    ELSE LET c == Head(text)
         IN (IF c < 128 THEN <<c>>
             ELSE <<192 + (c \div 64), 128 + (c % 64)>>) \o Utf8Encode(Tail(text))

\* file_content.decoded_content
DecodedContent(e) ==
    IF e.decodeRaises THEN [ok |-> FALSE, data |-> <<>>]
    ELSE [ok |-> TRUE, data |-> e.decoded]

\* DecodeEntry with a slip: an absent content field is encoded as it is,
\* which raises.
DecodeEntryNoFallback(e) ==
    IF e.encoding = "base64" THEN DecodedContent(e)
    ELSE IF e.encoding = "none" \/ e.encoding = EncAbsent
    THEN (IF e.hasContent THEN [ok |-> TRUE, data |-> Utf8Encode(e.content)]
          ELSE [ok |-> FALSE, data |-> <<>>])
    ELSE DecodedContent(e)

\* The decoding of one file entry: the bytes to write, or a fault.
DecodeEntry(e) ==
    IF e.encoding = "base64" THEN DecodedContent(e)
    ELSE IF e.encoding = "none" \/ e.encoding = EncAbsent
    THEN [ok |-> TRUE, data |-> Utf8Encode(IF e.hasContent THEN e.content ELSE <<>>)]
    ELSE DecodedContent(e)

(***************************************************************************)
(* pull_from_github.  The running state of a call: the filesystem, the     *)
(* running total, the files written in order, the roots begun in order,    *)
(* the entries skipped for a decode fault, the fault that ended the call,  *)
(* if any, and the steps taken in order: the wipe of a root, the listing   *)
(* of a directory popped from the queue, the write or the skip of a file.  *)
(***************************************************************************)
StartPull(fs) ==
    [fs |-> fs, total |-> 0, writes |-> <<>>, visited |-> <<>>, skipped |-> {},
     swallowed |-> {}, failed |-> FALSE, error |-> "", events |-> <<>>]

Event(op, path) == [op |-> op, path |-> path]

Fail(st, text) == [st EXCEPT !.failed = TRUE, !.error = text]

\* PullFile with a slip: a decode fault is not caught and ends the call.
PullFileAbort(st, e) ==
    LET made == [st EXCEPT !.fs = Makedirs(@, Dirname(e.path))]
        dec == DecodeEntry(e)
    IN IF ~dec.ok
       THEN Fail([made EXCEPT !.skipped = @ \cup {e.path},
                              !.events = Append(@, Event("skip", e.path))],
                 "decode failed")
       ELSE [made EXCEPT !.fs = WriteFile(@, e.path, dec.data),
                         !.total = @ + 1,
                         !.writes = Append(@, e.path),
                         !.events = Append(@, Event("write", e.path))]

\* PullFile with a slip: a skipped entry is counted too.
PullFileCountsSkipped(st, e) ==
    LET made == [st EXCEPT !.fs = Makedirs(@, Dirname(e.path)), !.total = @ + 1]
        dec == DecodeEntry(e)
    IN IF ~dec.ok
       THEN [made EXCEPT !.skipped = @ \cup {e.path},
                         !.events = Append(@, Event("skip", e.path))]
       ELSE [made EXCEPT !.fs = WriteFile(@, e.path, dec.data),
                         !.writes = Append(@, e.path),
                         !.events = Append(@, Event("write", e.path))]

\* One file entry popped from the queue.
PullFile(st, e) ==
    LET made == [st EXCEPT !.fs = Makedirs(@, Dirname(e.path))]
        dec == DecodeEntry(e)
    IN IF ~dec.ok
       THEN [made EXCEPT !.skipped = @ \cup {e.path},
                         !.events = Append(@, Event("skip", e.path))]
       ELSE [made EXCEPT !.fs = WriteFile(@, e.path, dec.data),
                         !.total = @ + 1,
                         !.writes = Append(@, e.path),
                         !.events = Append(@, Event("write", e.path))]

\* Download with a slip: the entries of a directory are put at the front of
\* the queue (depth first).
RECURSIVE DownloadDepthFirst(_, _, _)
DownloadDepthFirst(r, queue, st) ==
    IF queue = <<>> THEN st
    ELSE LET e == Head(queue)
             rest == Tail(queue)
         IN IF e.type = "dir"
            THEN LET got == GetContents(r, e.path)
                     listed == [st EXCEPT !.events = Append(@, Event("list", e.path))]
                 IN IF got.raised
                    THEN Fail(listed, got.why)
                    ELSE DownloadDepthFirst(r, got.entries \o rest, listed)
            ELSE DownloadDepthFirst(r, rest, PullFile(st, e))

\* The download loop over the queue of entries still to process: the first
\* entry is popped, the entries of a directory are put at the end.
RECURSIVE Download(_, _, _)
Download(r, queue, st) ==
    IF queue = <<>> THEN st
    ELSE LET e == Head(queue)
             rest == Tail(queue)
         IN IF e.type = "dir"
            THEN LET got == GetContents(r, e.path)
                     listed == [st EXCEPT !.events = Append(@, Event("list", e.path))]
                 IN IF got.raised
                    THEN Fail(listed, got.why)
                    ELSE Download(r, rest \o got.entries, listed)
            ELSE Download(r, rest, PullFile(st, e))

\* WipeRoot with a slip: the folder is recreated only when it did not exist.
WipeRootElse(df, st, root) ==
    IF PathExists(st.fs, root)
    THEN (IF df.root = root /\ df.op \in {"rmtree", "rmtree_partial"}
          THEN Fail([st EXCEPT !.fs = RmtreeFaulting(@, root, df.op)], "rmtree failed")
          ELSE [st EXCEPT !.fs = Rmtree(st.fs, root)])
    ELSE (IF df = [op |-> "makedirs", root |-> root]
          THEN Fail(st, "makedirs failed")
          ELSE [st EXCEPT !.fs = Makedirs(st.fs, root)])

\* Step 1 of the loop body: wipe the local folder and recreate it.  Either
\* step may raise, which ends the call.
WipeRoot(df, st, root) ==
    IF PathExists(st.fs, root) /\ df.root = root /\ df.op \in {"rmtree", "rmtree_partial"}
    THEN Fail([st EXCEPT !.fs = RmtreeFaulting(@, root, df.op)], "rmtree failed")
    ELSE LET wiped == IF PathExists(st.fs, root) THEN Rmtree(st.fs, root) ELSE st.fs
         IN IF df = [op |-> "makedirs", root |-> root]
            THEN Fail([st EXCEPT !.fs = wiped], "makedirs failed")
            ELSE [st EXCEPT !.fs = Makedirs(wiped, root)]

\* PullRoot with a slip: a root whose listing raises ends the call.
PullRootAbortOnMissing(r, df, st0, root) ==
    LET st == [st0 EXCEPT !.visited = Append(@, root),
                          !.events = Append(@, Event("wipe", root))]
        wiped == WipeRoot(df, st, root)
    IN IF wiped.failed THEN wiped
       ELSE LET got == GetContents(r, root)
            IN IF got.raised
               THEN Fail([wiped EXCEPT !.swallowed = @ \cup {root}], got.why)
               ELSE Download(r, got.entries, wiped)

\* The body of the loop over BASE_DIRS for one folder.
PullRoot(r, df, st0, root) ==
    LET st == [st0 EXCEPT !.visited = Append(@, root),
                          !.events = Append(@, Event("wipe", root))]
        wiped == WipeRoot(df, st, root)
    IN IF wiped.failed THEN wiped
       ELSE LET got == GetContents(r, root)
            IN IF got.raised
               THEN [wiped EXCEPT !.swallowed = @ \cup {root}]
               ELSE Download(r, got.entries, wiped)

RECURSIVE PullRoots(_, _, _, _)
PullRoots(r, df, st, i) ==
    IF i > Len(BASE_DIRS) \/ st.failed THEN st
    ELSE PullRoots(r, df, PullRoot(r, df, st, BASE_DIRS[i].folder), i + 1)

\* PullFromGithub with a slip: the repository is looked up before the try
\* block, so a fault of the lookup is not caught.
PullFromGithubLookupOutside(r, df, fs) ==
    LET st == IF r.repoFault THEN Fail(StartPull(fs), "repository lookup failed")
              ELSE PullRoots(r, df, StartPull(fs), 1)
    IN [st |-> st,
        raises |-> r.repoFault,
        ok |-> ~st.failed,
        msg |-> IF st.failed THEN [kind |-> "error", text |-> st.error, count |-> 0]
                ELSE [kind |-> "summary", text |-> "Sync complete!", count |-> st.total]]

\* The whole call: the final running state and the pair returned.  Every
\* step is inside the try block, so every fault ends in the except clause
\* and none is raised to the caller.
PullFromGithub(r, df, fs) ==
    LET st == IF r.repoFault THEN Fail(StartPull(fs), "repository lookup failed")
              ELSE PullRoots(r, df, StartPull(fs), 1)
    IN [st |-> st,
        raises |-> FALSE,
        ok |-> ~st.failed,
        msg |-> IF st.failed THEN [kind |-> "error", text |-> st.error, count |-> 0]
                ELSE [kind |-> "summary", text |-> "Sync complete!", count |-> st.total]]


(***************************************************************************)
(* push_to_github.  The host keeps a file as a blob whose identifier (sha) *)
(* names its content; update_file is accepted only with the identifier of  *)
(* the blob the branch holds at that moment.  What the host and the other  *)
(* committers do during one call is the environment of the call: the       *)
(* metadata request may fail, another commit may replace the file between  *)
(* the fetch and the update, and the update request may fail.              *)
(***************************************************************************)
\* One character of the base64 alphabet, as a code point.
B64Char(v) ==
    IF v < 26 THEN 65 + v
    ELSE IF v < 52 THEN 97 + (v - 26)
    ELSE IF v < 62 THEN 48 + (v - 52)
    ELSE IF v = 62 THEN 43 ELSE 47

\* The base64 text the host keeps for a byte string.
RECURSIVE B64Encode(_)
B64Encode(b) ==
    IF b = <<>> THEN <<>>
    ELSE IF Len(b) = 1
    THEN <<B64Char(b[1] \div 4), B64Char((b[1] % 4) * 16), 61, 61>>
    ELSE IF Len(b) = 2
    THEN <<B64Char(b[1] \div 4), B64Char((b[1] % 4) * 16 + (b[2] \div 16)),
           B64Char((b[2] % 16) * 4), 61>>
    ELSE <<B64Char(b[1] \div 4), B64Char((b[1] % 4) * 16 + (b[2] \div 16)),
           B64Char((b[2] % 16) * 4 + (b[3] \div 64)), B64Char(b[3] % 64)>>
           \o B64Encode(SubSeq(b, 4, Len(b)))

\* The remote file a commit of a text makes: the text's UTF-8 bytes, base64.
KindOfText(text) ==
    [present |-> TRUE, encoding |-> "base64", hasContent |-> TRUE,
     content |-> B64Encode(Utf8Encode(text)), decodeRaises |-> FALSE,
     decoded |-> Utf8Encode(text)]

\* contents.sha: the identifier of the blob, one per content.
BlobSha(k) == [blob |-> k.content, bytes |-> k.decoded, declared |-> k.encoding]

\* The text another committer puts in the file ("c").
OtherText == <<99>>

PushEnvs == [fetchFault : BOOLEAN, race : BOOLEAN, updateFault : BOOLEAN]

\* repo.get_contents(local_path, ref=branch) on a file path.
GetFile(r, local_path, env) ==
    IF env.fetchFault
    THEN [raised |-> TRUE, why |-> "request failed", path |-> <<>>, sha |-> BlobSha(Absent)]
    ELSE IF ~(local_path \in RemoteFilePaths /\ r.files[local_path].present)
    THEN [raised |-> TRUE, why |-> "not found", path |-> <<>>, sha |-> BlobSha(Absent)]
    ELSE [raised |-> FALSE, why |-> "", path |-> local_path,
          sha |-> BlobSha(r.files[local_path])]

\* The repository after the other committer's commit to the file, if any.
AfterRace(r, path, env) ==
    IF env.race THEN [r EXCEPT !.files[path] = KindOfText(OtherText)] ELSE r

\* repo.update_file(path, message, content, sha, branch): the repository
\* afterwards; the host rejects a sha that is not that of the file's blob.
UpdateFile(r, path, content, sha, env) ==
    IF env.updateFault
    THEN [raised |-> TRUE, why |-> "request failed", remote |-> r]
    ELSE IF BlobSha(r.files[path]) # sha
    THEN [raised |-> TRUE, why |-> "sha does not match", remote |-> r]
    ELSE [raised |-> FALSE, why |-> "",
          remote |-> [r EXCEPT !.files[path] = KindOfText(content)]]

\* The pair returned from the except clause, and what the call did.
PushFailed(r, calls, atUpdate, why) ==
    [remote |-> r, raises |-> FALSE, ok |-> FALSE,
     msg |-> [prefix |-> "GitHub Error: ", text |-> why],
     calls |-> calls, atUpdate |-> atUpdate]

\* PushToGithub with a slip: a rejected update is submitted again with the
\* identifier fetched anew.
PushToGithubRetry(r, local_path, content, env) ==
    IF r.repoFault
    THEN PushFailed(r, <<"get_repo">>, r, "repository lookup failed")
    ELSE LET contents == GetFile(r, local_path, env)
         IN IF contents.raised
            THEN PushFailed(r, <<"get_repo", "get_contents">>, r, contents.why)
            ELSE LET r1 == AfterRace(r, contents.path, env)
                     upd == UpdateFile(r1, contents.path, content, contents.sha, env)
                     again == UpdateFile(r1, contents.path, content,
                                         BlobSha(r1.files[contents.path]), env)
                 IN IF ~upd.raised
                    THEN [remote |-> upd.remote, raises |-> FALSE, ok |-> TRUE,
                          msg |-> [prefix |-> "", text |-> "Successfully pushed to GitHub!"],
                          calls |-> <<"get_repo", "get_contents", "update_file">>,
                          atUpdate |-> r1]
                    ELSE IF again.raised
                    THEN PushFailed(again.remote,
                                    <<"get_repo", "get_contents", "update_file",
                                      "get_contents", "update_file">>, r1, again.why)
                    ELSE [remote |-> again.remote, raises |-> FALSE, ok |-> TRUE,
                          msg |-> [prefix |-> "", text |-> "Successfully pushed to GitHub!"],
                          calls |-> <<"get_repo", "get_contents", "update_file",
                                      "get_contents", "update_file">>,
                          atUpdate |-> r1]

\* push_to_github(local_path, content, commit_message): the repository
\* afterwards, the pair returned, the requests made in order, and the
\* repository as the update was submitted.
PushToGithub(r, local_path, content, env) ==
    IF r.repoFault
    THEN PushFailed(r, <<"get_repo">>, r, "repository lookup failed")
    ELSE LET contents == GetFile(r, local_path, env)
         IN IF contents.raised
            THEN PushFailed(r, <<"get_repo", "get_contents">>, r, contents.why)
            ELSE LET r1 == AfterRace(r, contents.path, env)
                     upd == UpdateFile(r1, contents.path, content, contents.sha, env)
                 IN IF upd.raised
                    THEN PushFailed(upd.remote,
                                    <<"get_repo", "get_contents", "update_file">>,
                                    r1, upd.why)
                    ELSE [remote |-> upd.remote, raises |-> FALSE, ok |-> TRUE,
                          msg |-> [prefix |-> "", text |-> "Successfully pushed to GitHub!"],
                          calls |-> <<"get_repo", "get_contents", "update_file">>,
                          atUpdate |-> r1]

NoPushEnv == [fetchFault |-> FALSE, race |-> FALSE, updateFault |-> FALSE]


(***************************************************************************)
(* compile_latex.  The external compiler is the environment: a run either  *)
(* cannot be started (subprocess.run raises) or ends with an exit status,  *)
(* the texts it wrote to standard output and standard error, and possibly  *)
(* a PDF written for the job.                                              *)
(***************************************************************************)
\* The relative path of the build directory.
TEMP_DIR == << <<"temp_build">> >>

\* The working directory of the process.
Cwd == << <<"app">> >>

\* os.path.abspath of a relative path.
Abspath(p) == Cwd \o p

\* os.path.basename
Basename(p) == p[Len(p)]

\* os.path.splitext(name)[0]: the name up to its last dot; a name without a
\* dot, or with dots at its start only, is kept whole.
SplitextStem(name) ==
    IF Len(name) >= 2 /\ \E i \in 1..(Len(name) - 1) : name[i] # ""
    THEN SubSeq(name, 1, Len(name) - 1)
    ELSE name

\* f"{job_name}.pdf"
PdfName(job) == Append(job, "pdf")

NoPath == [isNone |-> TRUE, path |-> <<>>]
SomePath(p) == [isNone |-> FALSE, path |-> p]
\* A captured text is the sequence of its lines.
NoLog == [isNone |-> TRUE, text |-> <<>>]
SomeLog(t) == [isNone |-> FALSE, text |-> t]

InvocationFault ==
    [raised |-> TRUE, error |-> <<"No such file or directory: 'pdflatex'">>,
     returncode |-> 0, stdout |-> <<>>, stderr |-> <<>>, pdf |-> "untouched"]

\* What one invocation of the compiler may do.
CompilerOutcomes ==
    {InvocationFault} \cup
    [raised : {FALSE}, error : {<<>>}, returncode : {0, 1},
     stdout : {<<>>, <<"This is pdfTeX">>}, stderr : {<<>>, <<"kpathsea: fatal">>},
     pdf : {"written", "untouched"}]

\* The build directory after the compiler ran: a PDF it wrote replaces the
\* one of that job name; each PDF is tagged with its source and its run.
RunCompiler(td, job, filePath, out, run) ==
    IF ~out.raised /\ out.pdf = "written"
    THEN (PdfName(job) :> [source |-> filePath, run |-> run]) @@ td
    ELSE td

\* CompileLatex with a slip: the exit status alone decides.
CompileLatexExitOnly(td, filePath, out, run) ==
    LET job_name == SplitextStem(Basename(filePath))
        after == RunCompiler(td, job_name, filePath, out, run)
        pdf_path == Append(Abspath(TEMP_DIR), PdfName(job_name))
    IN IF out.raised
       THEN [tempDir |-> after, job |-> job_name, pdf |-> NoPath, log |-> SomeLog(out.error),
             raises |-> FALSE]
       ELSE IF out.returncode = 0
       THEN [tempDir |-> after, job |-> job_name, pdf |-> SomePath(pdf_path), log |-> NoLog,
             raises |-> FALSE]
       ELSE [tempDir |-> after, job |-> job_name, pdf |-> NoPath, log |-> SomeLog(out.stdout),
             raises |-> FALSE]

\* compile_latex(file_path): the build directory afterwards and the pair
\* (pdf path, log) returned; a fault of the invocation is caught.
CompileLatex(td, filePath, out, run) ==
    LET file_name == Basename(filePath)
        job_name == SplitextStem(file_name)
        abs_temp_dir == Abspath(TEMP_DIR)
        after == RunCompiler(td, job_name, filePath, out, run)
        pdf_path == Append(abs_temp_dir, PdfName(job_name))
    IN IF out.raised
       THEN [tempDir |-> after, job |-> job_name, pdf |-> NoPath, log |-> SomeLog(out.error),
             raises |-> FALSE]
       ELSE IF out.returncode = 0 /\ PdfName(job_name) \in DOMAIN after
       THEN [tempDir |-> after, job |-> job_name, pdf |-> SomePath(pdf_path), log |-> NoLog,
             raises |-> FALSE]
       ELSE [tempDir |-> after, job |-> job_name, pdf |-> NoPath, log |-> SomeLog(out.stdout),
             raises |-> FALSE]

\* The LaTeX sources compile_latex is called on (absolute paths).
nExam == <<"exam", "v2", "tex">>
SourcePaths ==
    { Abspath(<<nTopics, nK, nNotes>>),
      Abspath(<<nYear, n2023, nNotes>>),
      Abspath(<<nTopics, nK, nExam>>) }

NoCompile ==
    [called |-> FALSE, filePath |-> <<>>, out |-> InvocationFault, job |-> <<>>,
     raises |-> FALSE, pdf |-> NoPath, log |-> NoLog]

\* The build directory is empty, or holds a PDF of an earlier session.
TempDirChoices ==
    { <<>>, (PdfName(<<"notes">>) :> [source |-> Abspath(<<nTopics, nK, nNotes>>), run |-> 0]) }

(***************************************************************************)
(* The states the synchronisation starts from.                             *)
(***************************************************************************)
OldBytes == <<111>>

EmptyFs == [dirs |-> {}, files |-> <<>>]

\* A local root: missing, an empty directory, or a mirror of an earlier time.
LocalTopicsChoices ==
    { EmptyFs,
      [dirs |-> {<<nTopics>>}, files |-> <<>>],
      [dirs |-> {<<nTopics>>, <<nTopics, nK>>, <<nTopics, nOld>>},
       files |-> (pTopicsNotes :> OldBytes) @@ (<<nTopics, nOld, nGone>> :> OldBytes)] }

LocalYearChoices ==
    { EmptyFs,
      [dirs |-> {<<nYear>>, <<nYear, n2023>>},
       files |-> (pYearNotes :> OldBytes) @@ (<<nYear, n2023, nGone>> :> OldBytes)] }

MergeFs(a, b) == [dirs |-> a.dirs \cup b.dirs, files |-> a.files @@ b.files]

NoDiskFault == [op |-> "none", root |-> <<>>]

DiskFaults == {NoDiskFault} \cup [op : {"rmtree", "rmtree_partial", "makedirs"}, root : Roots]

RemoteStates ==
    { r \in [files : [RemoteFilePaths -> UNION {KindsAt(p) : p \in RemoteFilePaths}],
             repoFault : BOOLEAN,
             listFault : SUBSET RemoteDirPaths] :
        /\ \A p \in RemoteFilePaths : r.files[p] \in KindsAt(p)
        /\ r.repoFault => r.listFault = {} }

NoPull ==
    [called |-> FALSE, via |-> "", raises |-> FALSE, ok |-> FALSE,
     msg |-> [kind |-> "", text |-> "", count |-> 0],
     st |-> StartPull(EmptyFs), before |-> EmptyFs]

NoTree == [known |-> FALSE, ok |-> FALSE, fs |-> EmptyFs]

NoPush ==
    [called |-> FALSE, path |-> <<>>, content |-> <<>>, env |-> NoPushEnv,
     before |-> <<>>, atUpdate |-> <<>>, raises |-> FALSE, ok |-> FALSE,
     msg |-> [prefix |-> "", text |-> ""], calls |-> <<>>]

\* No page script is running: the entry points are called directly.
NoPage ==
    /\ script = "none"
    /\ session = <<>>
    /\ lastRun = <<>>
    /\ runs = 0

SyncInit ==
    /\ remote \in RemoteStates
    /\ diskFault \in DiskFaults
    /\ \E t \in LocalTopicsChoices, y \in LocalYearChoices : local = MergeFs(t, y)
    /\ last = NoPull
    /\ prevAfter = NoTree
    /\ pulls = 0
    /\ tempDir = <<>>
    /\ lastCompile = NoCompile
    /\ compiles = 0
    /\ lastPush = NoPush
    /\ pushes = 0
    /\ NoPage

\* One call of pull_from_github from the page script.
CallPull(via) ==
    LET res == PullFromGithub(remote, diskFault, local)
    IN /\ pulls < MaxPulls
       /\ local' = res.st.fs
       /\ last' = [called |-> TRUE, via |-> via, raises |-> res.raises, ok |-> res.ok,
                   msg |-> res.msg, st |-> res.st, before |-> local]
       /\ prevAfter' = [known |-> last.called, ok |-> last.ok, fs |-> local]
       /\ pulls' = pulls + 1
       /\ UNCHANGED <<remote, diskFault>>

\* os.listdir(folder): the names directly inside it.
Listdir(fs, d) == {p \in fs.dirs \cup DOMAIN fs.files : Dirname(p) = d /\ p # <<>>}

\* The auto-pull check of the page script: the Topics folder is missing or empty.
AutoPull ==
    /\ ~PathExists(local, BASE_DIRS[1].folder) \/ Listdir(local, BASE_DIRS[1].folder) = {}
    /\ CallPull("auto")
    /\ UNCHANGED <<compileVars, pushVars, pageVars>>

\* The admin's "Pull All" button.
PullAll ==
    /\ CallPull("button")
    /\ UNCHANGED <<compileVars, pushVars, pageVars>>

SyncNext == AutoPull \/ PullAll

SyncSpec == SyncInit /\ [][SyncNext]_vars

(***************************************************************************)
(* Notions the properties of pull_from_github are stated with.             *)
(***************************************************************************)
Range(seq) == {seq[i] : i \in 1..Len(seq)}

\* The files the repository holds below a root.
RemoteFilesUnder(root) ==
    {p \in RemoteFilePaths : remote.files[p].present /\ Under(root, p)}

SubDirs == RemoteDirPaths \ Roots

\* A listing of a mapped root was requested in the latest call and the request
\* itself failed (the folder being absent from the repository is not this).
RootListingFaulted ==
    \E root \in last.st.swallowed : root \in remote.listFault

\* A listing of a sub-directory raised in the latest call.
SubListingFaulted == last.st.failed /\ last.st.error = "request failed"

\* A local filesystem step of the latest call raised.
DiskStepFaulted == last.st.failed /\ last.st.error \in {"rmtree failed", "makedirs failed"}

\* Nothing in the environment can abort a call.
NoAbortingFault ==
    /\ ~remote.repoFault
    /\ diskFault = NoDiskFault
    /\ remote.listFault \cap SubDirs = {}

\* C1 (as claimed): after a call that returns success, the local files below
\* every mapped root are exactly the remote files below it, less the entries
\* whose decoding faulted.
C1_MirrorAfterSuccess ==
    (last.called /\ last.ok) =>
        \A root \in Roots :
            FilesUnder(local, root) = RemoteFilesUnder(root) \ last.st.skipped

\* C2 (as claimed): a fault of any call to the remote host aborts the call
\* with a message and leaves the local tree as it was before the call.
C2_FaultLeavesLocalUntouched ==
    (last.called /\ (remote.repoFault \/ RootListingFaulted \/ SubListingFaulted)) =>
        /\ ~last.ok
        /\ last.msg.kind = "error"
        /\ local = last.before

\* C2 (amended): a repository lookup fault aborts the call with a message and
\* leaves the local tree untouched.  A sub-directory listing fault aborts the
\* call with a message, but after the roots reached so far were wiped: they
\* hold exactly the files this call wrote, and only the roots not reached are
\* as they were.  A root whose own listing raised has been wiped and is empty.
C2_FaultAfterWipe ==
    last.called =>
        /\ remote.repoFault =>
              ~last.ok /\ last.msg.kind = "error" /\ local = last.before
        /\ SubListingFaulted =>
              /\ ~last.ok
              /\ last.msg = [kind |-> "error", text |-> "request failed", count |-> 0]
              /\ \A root \in Roots \ Range(last.st.visited) :
                     Subtree(local, root) = Subtree(last.before, root)
              /\ \A root \in Range(last.st.visited) :
                     FilesUnder(local, root)
                        = {p \in Range(last.st.writes) : Under(root, p)}
        /\ \A root \in last.st.swallowed :
              /\ root \in local.dirs
              /\ FilesUnder(local, root) = {}
              /\ DirsUnder(local, root) = {}

\* C2, for the faults that do end the call (a repository lookup or a
\* sub-directory listing): the claimed "local tree untouched" alone.  It fails
\* too: the wipe precedes the listing.
C2_AbortLeavesLocalUntouched ==
    (last.called /\ (remote.repoFault \/ SubListingFaulted)) => local = last.before

\* C2 witness: a sub-directory listing faulted after an earlier root was
\* repopulated, and files the local tree held before are gone.
C2_Witness ==
    /\ last.called
    /\ SubListingFaulted
    /\ last.st.writes # <<>>
    /\ \E p \in DOMAIN last.before.files : p \notin DOMAIN local.files

\* C3 (as claimed): the call returns failure whenever wiping a root,
\* recreating it or requesting its remote listing raises, a root missing from
\* the repository excepted, and success only when none of these raised.
C3_RootStepFaultFails ==
    last.called =>
        /\ (DiskStepFaulted \/ RootListingFaulted) =>
              ~last.ok /\ last.msg.kind = "error"
        /\ last.ok => ~(DiskStepFaulted \/ RootListingFaulted)

Healed(r) ==
    [r EXCEPT !.files =
        [p \in RemoteFilePaths |->
            IF r.files[p].present /\ r.files[p].decodeRaises
                 /\ r.files[p].encoding \notin {"none", EncAbsent}
            THEN [r.files[p] EXCEPT !.decodeRaises = FALSE, !.decoded = <<1>>]
            ELSE r.files[p]]]

\* seq without the members of set, in the same order.
Without(seq, set) == SelectSeq(seq, LAMBDA x : x \notin set)

\* C5: an entry whose decoding faults is not written and not counted, and
\* the call goes on as if the entry had decoded: it returns the same flag,
\* visits the same roots and writes the same other files in the same order
\* with the same bytes.  Unless something else aborts the call, every other
\* file of every root whose listing was obtained is written and the call
\* returns success.
C5_DecodeFaultSkipsOneEntry ==
    (last.called /\ last.st.skipped # {}) =>
        /\ LET ref == PullFromGithub(Healed(remote), diskFault, last.before)
           IN /\ last.ok = ref.ok
              /\ last.st.visited = ref.st.visited
              /\ last.st.writes = Without(ref.st.writes, last.st.skipped)
              /\ last.st.total = ref.st.total - Cardinality(last.st.skipped)
              /\ local.dirs = ref.st.fs.dirs
              /\ DOMAIN local.files = DOMAIN ref.st.fs.files \ last.st.skipped
              /\ \A p \in DOMAIN local.files : local.files[p] = ref.st.fs.files[p]
        /\ \A p \in last.st.skipped :
              p \notin Range(last.st.writes) /\ p \notin DOMAIN local.files
        /\ last.st.total = Cardinality(Range(last.st.writes))
        /\ Range(last.st.writes) \cap last.st.skipped = {}
        /\ NoAbortingFault =>
              /\ last.ok
              /\ last.st.visited = [i \in 1..Len(BASE_DIRS) |-> BASE_DIRS[i].folder]
              /\ \A root \in Roots \ remote.listFault :
                    \A p \in RemoteFilesUnder(root) \ last.st.skipped :
                        p \in Range(last.st.writes) /\ p \in DOMAIN local.files

\* C5 witness: the first file of a directory faulted; the file after it and
\* the file of the later root were written, and the call returned success.
C5_Witness ==
    /\ last.called
    /\ last.ok
    /\ last.st.skipped = {pTopicsDiagram}
    /\ pTopicsNotes \in DOMAIN local.files
    /\ pYearNotes \in DOMAIN local.files
    /\ last.msg.count = 2

\* C6: a mapped root that is missing from the repository is left as an
\* existing empty directory, every later root is still processed, and unless
\* something else aborts the call it returns success.
C6_MissingRootSkipped ==
    last.called =>
        \A i \in 1..Len(BASE_DIRS) :
            LET root == BASE_DIRS[i].folder
            IN (root \in last.st.swallowed /\ ~RemoteDirExists(remote, root)) =>
                  /\ root \in local.dirs
                  /\ FilesUnder(local, root) = {}
                  /\ DirsUnder(local, root) = {}
                  /\ \A j \in (i + 1)..Len(BASE_DIRS) :
                        BASE_DIRS[j].folder \in Range(last.st.visited)
                  /\ NoAbortingFault => last.ok

\* C6 witness: the first root is missing remotely and held files locally; it
\* is now empty, and the later root was downloaded.
C6_Witness ==
    /\ last.called
    /\ last.ok
    /\ ~RemoteDirExists(remote, <<nTopics>>)
    /\ remote.listFault = {}
    /\ FilesUnder(last.before, <<nTopics>>) # {}
    /\ <<nTopics>> \in local.dirs
    /\ FilesUnder(local, <<nTopics>>) = {}
    /\ pYearNotes \in DOMAIN local.files

\* C7: the count of the success message is the number of files written in the
\* call over all roots, which is the number of files the roots hold after
\* it; directories and skipped entries are not counted.
C7_CountIsFilesWritten ==
    (last.called /\ last.ok) =>
        /\ last.msg.kind = "summary"
        /\ last.msg.count = Len(last.st.writes)
        /\ last.msg.count = Cardinality(UNION {FilesUnder(local, root) : root \in Roots})
        /\ Range(last.st.writes) \subseteq RemoteFilePaths \ last.st.skipped

\* C7 witness: three files in two roots and two directories, one entry skipped.
C7_Witness ==
    /\ last.called
    /\ last.ok
    /\ last.msg.count = 3
    /\ last.st.skipped # {}
    /\ Range(last.st.writes) = {pTopicsNotes, pTopicsIntro, pYearNotes}

\* The bytes C8 names for a remote file.
ExpectedBytes(k) ==
    CASE k.encoding = "base64" -> k.decoded
      [] k.encoding \in {"none", EncAbsent} /\ ~k.hasContent -> <<>>
      [] k.encoding \in {"none", EncAbsent} /\ k.hasContent -> Utf8Encode(k.content)
      [] OTHER -> k.decoded

\* C8: every file written holds the decoded payload when the encoding is
\* base64 or some other declared encoding, and the UTF-8 bytes of the raw
\* content when the encoding is "none" or absent; in that case an absent
\* content field gives an empty file and the entry is never skipped.
C8_BytesWritten ==
    last.called =>
        /\ \A p \in Range(last.st.writes) :
              local.files[p] = ExpectedBytes(remote.files[p])
        /\ \A p \in last.st.skipped :
              remote.files[p].encoding \notin {"none", EncAbsent}
        /\ \A p \in Range(last.st.writes) :
              (remote.files[p].encoding \in {"none", EncAbsent}
                 /\ ~remote.files[p].hasContent) => local.files[p] = <<>>

\* C8 witness: a base64 file, a file of encoding "none" without content and
\* a file of another encoding were written in one call.
C8_Witness ==
    /\ last.called
    /\ pTopicsNotes \in Range(last.st.writes)
    /\ local.files[pTopicsNotes] = <<97>>
    /\ remote.files[pTopicsIntro] = KNoneNull
    /\ pTopicsIntro \in Range(last.st.writes)
    /\ local.files[pTopicsIntro] = <<>>
    /\ remote.files[pYearNotes] = KOther
    /\ pYearNotes \in Range(last.st.writes)
    /\ local.files[pYearNotes] = <<7>>

\* C8 witness for raw text: the two UTF-8 bytes of the code point 233.
C8_WitnessText ==
    /\ last.called
    /\ remote.files[pTopicsIntro] = KNoneText
    /\ pTopicsIntro \in Range(last.st.writes)
    /\ local.files[pTopicsIntro] = <<195, 169>>

(***************************************************************************)
(* The compilation on its own: the page script calls compile_latex on the  *)
(* selected LaTeX source.                                                  *)
(***************************************************************************)
CompileInit ==
    /\ remote \in {r \in RemoteStates : r.listFault = {} /\ ~r.repoFault
                                          /\ \A p \in RemoteFilePaths : ~r.files[p].present}
    /\ diskFault = NoDiskFault
    /\ local = EmptyFs
    /\ last = NoPull
    /\ prevAfter = NoTree
    /\ pulls = 0
    /\ tempDir \in TempDirChoices
    /\ lastCompile = NoCompile
    /\ compiles = 0
    /\ lastPush = NoPush
    /\ pushes = 0
    /\ NoPage

Compile ==
    /\ compiles < MaxCompiles
    /\ \E filePath \in SourcePaths, out \in CompilerOutcomes :
          LET res == CompileLatex(tempDir, filePath, out, compiles + 1)
          IN /\ tempDir' = res.tempDir
             /\ lastCompile' = [called |-> TRUE, filePath |-> filePath, out |-> out,
                                job |-> res.job, raises |-> res.raises,
                                pdf |-> res.pdf, log |-> res.log]
    /\ compiles' = compiles + 1
    /\ UNCHANGED <<syncVars, pushVars, pageVars>>

CompileNext == Compile

CompileSpec == CompileInit /\ [][CompileNext]_vars

\* The PDF path of the result is populated.
PdfPopulated == ~lastCompile.pdf.isNone

\* The log of the result is populated: present and not empty.
LogPopulated == ~lastCompile.log.isNone /\ lastCompile.log.text # <<>>

\* C9 (as claimed): every call returns a pair with exactly one of the PDF
\* path and the log populated: a path and no log on success, no path and a
\* non-empty log on every failure.
C9_ExactlyOnePopulated ==
    lastCompile.called =>
        /\ PdfPopulated # LogPopulated
        /\ PdfPopulated => lastCompile.log.isNone
        /\ ~PdfPopulated => LogPopulated

\* The file <jobname>.pdf is in the absolute temp build directory after the run.
PdfInTempDir(name) == PdfName(SplitextStem(name)) \in DOMAIN tempDir

\* C10: a PDF path is returned exactly when the compiler ran, exited with
\* status zero and <jobname>.pdf is in the absolute temp build directory,
\* and the path returned is that file's.
C10_PathIffZeroAndPdf ==
    lastCompile.called =>
        LET name == lastCompile.filePath[Len(lastCompile.filePath)]
        IN /\ PdfPopulated <=>
                 (/\ ~lastCompile.out.raised
                  /\ lastCompile.out.returncode = 0
                  /\ PdfInTempDir(name))
           /\ PdfPopulated =>
                 lastCompile.pdf.path
                    = Cwd \o TEMP_DIR \o <<PdfName(SplitextStem(name))>>

\* C10 witness: the compiler exited with status zero, no PDF is there, and
\* no path was returned.
C10_Witness ==
    /\ lastCompile.called
    /\ ~lastCompile.out.raised
    /\ lastCompile.out.returncode = 0
    /\ PdfName(lastCompile.job) \notin DOMAIN tempDir
    /\ lastCompile.pdf.isNone

\* C10 witness: a PDF is there, the exit status is not zero, and no path was
\* returned.
C10_WitnessNonZero ==
    /\ lastCompile.called
    /\ ~lastCompile.out.raised
    /\ lastCompile.out.returncode # 0
    /\ PdfName(lastCompile.job) \in DOMAIN tempDir
    /\ lastCompile.pdf.isNone

\* C10 witness: status zero and the PDF of a source with two dots in its name.
C10_WitnessSuccess ==
    /\ lastCompile.called
    /\ lastCompile.out.returncode = 0
    /\ lastCompile.filePath = Abspath(<<nTopics, nK, nExam>>)
    /\ lastCompile.pdf = SomePath(<< <<"app">>, <<"temp_build">>, <<"exam", "v2", "pdf">> >>)

\* The compiler ran and compile_latex reported a failure.
CompilationFailed ==
    lastCompile.called /\ ~lastCompile.out.raised /\ lastCompile.pdf.isNone

\* C11 (as claimed): on a failed compilation the log returned holds the
\* compiler's standard output and standard error combined: every line the
\* compiler wrote to either stream is in the log.
C11_LogHasBothStreams ==
    CompilationFailed =>
        /\ ~lastCompile.log.isNone
        /\ Range(lastCompile.out.stdout) \subseteq Range(lastCompile.log.text)
        /\ Range(lastCompile.out.stderr) \subseteq Range(lastCompile.log.text)

\* C17 (as claimed): whenever compile_latex(S) returns a PDF path, the file
\* at that path was produced by this invocation from S: it is never a PDF
\* left by an earlier compilation of S or of another source with the same
\* base name.
C17_PdfIsOfThisInvocation ==
    (lastCompile.called /\ PdfPopulated) =>
        /\ PdfName(lastCompile.job) \in DOMAIN tempDir
        /\ tempDir[PdfName(lastCompile.job)]
              = [source |-> lastCompile.filePath, run |-> compiles]

\* C17, the case of two sources with one base name: the path returned is
\* never that of a PDF made from another source.
C17_PdfIsOfThisSource ==
    (lastCompile.called /\ PdfPopulated) =>
        /\ PdfName(lastCompile.job) \in DOMAIN tempDir
        /\ tempDir[PdfName(lastCompile.job)].source = lastCompile.filePath

\* The steps of the last call, and the index of the wipe that precedes step i.
Events == last.st.events
LastWipeBefore(i) ==
    LET ws == {j \in 1..(i - 1) : Events[j].op = "wipe"}
    IN IF ws = {} THEN 0 ELSE CHOOSE j \in ws : \A k \in ws : k <= j

IsWrite(ev) == ev.op = "write"
WrittenInOrder ==
    LET w == SelectSeq(Events, IsWrite) IN [i \in 1..Len(w) |-> w[i].path]

\* C16: within one root a pull takes the entries in breadth-first queue
\* order and writes the files one at a time in that order: a file at depth
\* d below the root is written before any file at depth d + 1; and every
\* root is fully processed before the next root's local folder is wiped:
\* each listing, write or skip belongs to the root wiped last.
C16_BreadthFirstRootByRoot ==
    last.called =>
        /\ \A i, j \in 1..Len(Events) :
              (/\ i < j
               /\ Events[i].op = "write" /\ Events[j].op = "write"
               /\ Events[i].path[1] = Events[j].path[1])
                  => Len(Events[i].path) <= Len(Events[j].path)
        /\ \A i \in 1..Len(Events) :
              Events[i].op # "wipe" =>
                  /\ LastWipeBefore(i) # 0
                  /\ Events[LastWipeBefore(i)].path = <<Events[i].path[1]>>
        /\ \A i, j \in 1..Len(Events) :
              (i < j /\ Events[i].op = "wipe" /\ Events[j].op = "wipe")
                  => Events[i].path # Events[j].path
        /\ \A i, j \in 1..Len(Events) :
              (i < j /\ Events[i].op = "write") => Events[i] # Events[j]
        /\ last.st.writes = WrittenInOrder

\* C16 witness: a call wrote a file at depth 1 and one at depth 2 of the
\* first root, then wiped the second root and wrote a file below it.
C16_Witness ==
    /\ last.called /\ last.ok
    /\ \E i, j, k, l \in 1..Len(Events) :
          /\ i < j /\ j < k /\ k < l
          /\ Events[i] = Event("write", pTopicsIntro)
          /\ Events[j] = Event("write", pTopicsNotes)
          /\ Events[k] = Event("wipe", <<nYear>>)
          /\ Events[l] = Event("write", pYearNotes)

(***************************************************************************)
(* push_to_github called on its own.                                       *)
(***************************************************************************)
\* The texts of the editor: "a", "b" and e-acute.
Texts == {<<97>>, <<98>>, <<233>>}

\* The relative paths push_to_github is called with: two files the
\* repository may hold and one it never holds.
PushPaths == {pTopicsNotes, pYearNotes, <<nTopics, nK, nExam>>}

PushInit ==
    /\ remote \in {r \in RemoteStates :
                     /\ r.listFault = {}
                     /\ r.files[pTopicsDiagram] = Absent
                     /\ r.files[pTopicsIntro] = Absent
                     /\ r.files[pYearNotes] \in {Absent, KB64, KOther}}
    /\ diskFault = NoDiskFault
    /\ local = EmptyFs
    /\ last = NoPull
    /\ prevAfter = NoTree
    /\ pulls = 0
    /\ tempDir = <<>>
    /\ lastCompile = NoCompile
    /\ compiles = 0
    /\ lastPush = NoPush
    /\ pushes = 0
    /\ NoPage

\* One call of push_to_github.
Push ==
    /\ pushes < MaxPushes
    /\ \E local_path \in PushPaths, content \in Texts, env \in PushEnvs :
          LET res == PushToGithub(remote, local_path, content, env)
          IN /\ remote' = res.remote
             /\ lastPush' = [called |-> TRUE, path |-> local_path, content |-> content,
                             env |-> env, before |-> remote, atUpdate |-> res.atUpdate,
                             raises |-> res.raises, ok |-> res.ok, msg |-> res.msg,
                             calls |-> res.calls]
    /\ pushes' = pushes + 1
    /\ UNCHANGED <<diskFault, local, last, prevAfter, pulls, compileVars, pageVars>>

PushNext == Push

PushSpec == PushInit /\ [][PushNext]_vars

\* How often a request was made in the latest call.
Requests(name) == Cardinality({i \in 1..Len(lastPush.calls) : lastPush.calls[i] = name})

\* The metadata fetch of the latest call returned the file's metadata.
Fetched ==
    /\ ~lastPush.before.repoFault
    /\ ~lastPush.env.fetchFault
    /\ lastPush.path \in RemoteFilePaths
    /\ lastPush.before.files[lastPush.path].present

\* The host rejected the update of the latest call: the file's identifier
\* changed between the fetch and the update, or the request failed.
UpdateRejected ==
    Fetched /\ (lastPush.env.updateFault
                  \/ BlobSha(lastPush.atUpdate.files[lastPush.path])
                        # BlobSha(lastPush.before.files[lastPush.path]))

\* C12: a call makes at most one metadata fetch and at most one update and
\* never retries; when the fetch faults no update is submitted; when the
\* host rejects the update the call returns (False, message with the
\* fault's description) and leaves the remote content as it was when the
\* update was submitted.
C12_OneFetchOneUpdate ==
    lastPush.called =>
        /\ Requests("get_contents") <= 1
        /\ Requests("update_file") <= 1
        /\ ~Fetched =>
              /\ Requests("update_file") = 0
              /\ ~lastPush.ok
              /\ remote = lastPush.before
        /\ UpdateRejected =>
              /\ ~lastPush.ok
              /\ lastPush.msg.prefix = "GitHub Error: "
              /\ lastPush.msg.text
                    = (IF lastPush.env.updateFault THEN "request failed"
                       ELSE "sha does not match")
              /\ remote = lastPush.atUpdate
        /\ (Fetched /\ ~UpdateRejected) =>
              /\ lastPush.ok
              /\ remote.files[lastPush.path] = KindOfText(lastPush.content)

\* C12 witness: another commit replaced the file between the fetch and the
\* update; the update was rejected and the file holds the other commit's
\* text, not the text pushed.
C12_Witness ==
    /\ lastPush.called
    /\ Fetched /\ lastPush.env.race /\ ~lastPush.env.updateFault
    /\ ~lastPush.ok
    /\ lastPush.msg.text = "sha does not match"
    /\ Requests("get_contents") = 1 /\ Requests("update_file") = 1
    /\ remote.files[lastPush.path] = KindOfText(OtherText)
    /\ remote.files[lastPush.path] # KindOfText(lastPush.content)

(***************************************************************************)
(* The page script.  Every interaction of the user with the page runs the  *)
(* script from its top against st.session_state; st.stop() and st.rerun()  *)
(* end a run, and after st.rerun() the script runs again at once.  A run   *)
(* is one step: it threads a record w of everything a run can change       *)
(* through the blocks of the script, in their order.                       *)
(***************************************************************************)
\* str.lower() on a piece of a name.
Lower(piece) ==
    CASE piece = "TEX" -> "tex"
      [] piece = "PDF" -> "pdf"
      [] piece = "PNG" -> "png"
      [] OTHER -> piece

\* get_subfolders(root_dir): the names of the directories directly inside it.
GetSubfolders(fs, root_dir) ==
    IF ~PathExists(fs, root_dir) THEN {}
    ELSE {d[Len(d)] : d \in {q \in Listdir(fs, root_dir) : q \in fs.dirs}}

allowed_extensions == {"tex", "pdf", "jpg", "jpeg", "png"}

\* get_files(root_dir, subfolder): the names with an allowed extension.
GetFiles(fs, root_dir, subfolder) ==
    {f[Len(f)] : f \in {q \in Listdir(fs, Append(root_dir, subfolder)) :
                          /\ Len(q[Len(q)]) >= 2
                          /\ Lower(q[Len(q)][Len(q[Len(q)])]) \in allowed_extensions}}

\* selected_file.lower().split('.')[-1]
FileExt(name) == Lower(name[Len(name)])

\* get_tex_files(topic) of app1.py: the names that end with ".tex" as written.
GetTexFiles(fs, topic) ==
    {f[Len(f)] : f \in {q \in Listdir(fs, <<nTopics, topic>>) :
                          Len(q[Len(q)]) >= 2 /\ q[Len(q)][Len(q[Len(q)])] = "tex"}}

\* bytes.decode('utf-8') as open(..., encoding="utf-8").read() does it, for
\* code points below 2048: the text, or a fault on a byte string that is
\* not UTF-8.
RECURSIVE Utf8Decode(_)
Utf8Decode(b) ==
    IF b = <<>> THEN [ok |-> TRUE, text |-> <<>>]
    ELSE IF b[1] < 128
    THEN LET rest == Utf8Decode(Tail(b))
         IN [ok |-> rest.ok, text |-> <<b[1]>> \o rest.text]
    ELSE IF b[1] >= 194 /\ b[1] < 224 /\ Len(b) >= 2 /\ b[2] >= 128 /\ b[2] < 192
    THEN LET rest == Utf8Decode(SubSeq(b, 3, Len(b)))
         IN [ok |-> rest.ok, text |-> <<(b[1] - 192) * 64 + (b[2] - 128)>> \o rest.text]
    ELSE [ok |-> FALSE, text |-> <<>>]

\* st.session_state of app.py before the first login.
NoSession ==
    [user_role |-> "none", last_processed |-> NoPath, force_recompile |-> FALSE,
     current_pdf |-> NoPath, compilation_error |-> NoLog]

\* st.session_state of app1.py at the start.
NoSession1 ==
    [last_compiled_file |-> NoPath, current_pdf_path |-> NoPath,
     compilation_error |-> NoLog]

\* What a run records: the role and the cached selection it started with,
\* the button pressed, the calls it made, the selection it processed, the
\* widgets it rendered and how it ended.
StartLog(role, pressed, cachedFor, before) ==
    [role |-> role, pressed |-> pressed, pulled |-> <<>>, pushed |-> 0, compiled |-> 0,
     reached |-> FALSE, rel |-> NoPath, isTex |-> FALSE, before |-> before,
     cachedFor |-> cachedFor, cachedBefore |-> cachedFor, localBefore |-> local,
     remoteBefore |-> remote, noChanges |-> FALSE, new_content |-> <<>>,
     buttons |-> {}, ended |-> ""]

\* The page as a session finds it when it opens it: the login form.
FirstLoad ==
    [StartLog("none", "none", NoPath, [last_processed |-> NoPath, force_recompile |-> FALSE])
        EXCEPT !.buttons = {"login"}, !.ended = "stop"]

\* The page of app1.py before its first run.
FirstLoad1 ==
    [StartLog("none", "none", NoPath, [last_processed |-> NoPath, force_recompile |-> FALSE])
        EXCEPT !.ended = "stop"]

\* Everything a run can change, at the start of a run.
StartRun(pressed, before) ==
    [local |-> local, remote |-> remote, tempDir |-> tempDir, session |-> session,
     last |-> last, prevAfter |-> prevAfter, pulls |-> pulls,
     lastCompile |-> lastCompile, compiles |-> compiles,
     lastPush |-> lastPush, pushes |-> pushes,
     log |-> StartLog(IF script = "app" THEN session.user_role ELSE "none",
                      pressed, lastRun.cachedFor, before),
     valid |-> TRUE]

\* st.stop(), st.rerun(), or an exception of the script: the run ends.
End(w, how) == [w EXCEPT !.log.ended = how]
Running(w) == w.log.ended = "" /\ w.valid

\* What a call of pull_from_github from the script leaves.
Pulled(w, via, res) ==
    [w EXCEPT !.local = res.st.fs,
              !.last = [called |-> TRUE, via |-> via, raises |-> res.raises,
                        ok |-> res.ok, msg |-> res.msg, st |-> res.st,
                        before |-> w.local],
              !.prevAfter = [known |-> w.last.called, ok |-> w.last.ok, fs |-> w.local],
              !.pulls = @ + 1,
              !.log.pulled = Append(@, via)]

\* A call of pull_from_github from the script.
PagePull(w, via) == Pulled(w, via, PullFromGithub(w.remote, diskFault, w.local))

\* What a call of push_to_github from the script leaves.
Pushed(w, rel_path, new_content, env, res) ==
    [w EXCEPT !.remote = res.remote,
              !.lastPush = [called |-> TRUE, path |-> rel_path, content |-> new_content,
                            env |-> env, before |-> w.remote,
                            atUpdate |-> res.atUpdate, raises |-> res.raises,
                            ok |-> res.ok, msg |-> res.msg, calls |-> res.calls],
              !.pushes = @ + 1,
              !.log.pushed = @ + 1]

\* A call of push_to_github from the script.
PagePush(w, rel_path, new_content, env) ==
    Pushed(w, rel_path, new_content, env,
           PushToGithub(w.remote, rel_path, new_content, env))

\* What a call of compile_latex from the script leaves; pdf is the path
\* returned.
Compiled(w, file_path, out, res, pdf) ==
    [w EXCEPT !.tempDir = res.tempDir,
              !.lastCompile = [called |-> TRUE, filePath |-> file_path, out |-> out,
                               job |-> res.job, raises |-> res.raises,
                               pdf |-> pdf, log |-> res.log],
              !.compiles = @ + 1,
              !.log.compiled = @ + 1]

CompiledAbs(w, abs_path, out, res) == Compiled(w, abs_path, out, res, res.pdf)

\* A call of compile_latex from the script.
PageCompile(w, abs_path, out) ==
    CompiledAbs(w, abs_path, out, CompileLatex(w.tempDir, abs_path, out, w.compiles + 1))

\* check_login() and the st.stop() after it.
AppCheckLogin(w, inp) ==
    IF w.session.user_role # "none" THEN w
    ELSE IF inp.pressed = "login" /\ inp.password = "admin_password"
    THEN End([w EXCEPT !.session.user_role = "admin"], "rerun")
    ELSE IF inp.pressed = "login" /\ inp.password = "viewer_password"
    THEN End([w EXCEPT !.session.user_role = "viewer"], "rerun")
    ELSE End([w EXCEPT !.log.buttons = @ \cup {"login"}], "stop")

\* AppAutoPull with a slip: the mirror is pulled at every run.
AppAutoPullAlways(w) ==
    IF ~Running(w) THEN w
    ELSE PagePull(w, "auto")

\* The auto-pull check: the Topics folder is missing or empty.
AppAutoPull(w) ==
    IF ~Running(w) THEN w
    ELSE IF ~PathExists(w.local, BASE_DIRS[1].folder)
              \/ Listdir(w.local, BASE_DIRS[1].folder) = {}
    THEN PagePull(w, "auto")
    ELSE w

\* if success: ... st.rerun()
RerunIfPulled(w) ==
    IF w.last.ok THEN End(w, "rerun")
    ELSE [w EXCEPT !.log.buttons = @ \cup {"pull"}]

\* The admin's "Pull All" button.
AppPullAll(w, inp) ==
    IF w.session.user_role # "admin" THEN w
    ELSE IF inp.pressed = "pull"
    THEN RerunIfPulled(PagePull(w, "button"))
    ELSE [w EXCEPT !.log.buttons = @ \cup {"pull"}]

\* The Logout button.
AppLogout(w, inp) ==
    IF ~Running(w) THEN w
    ELSE IF inp.pressed = "logout"
    THEN End([w EXCEPT !.session.user_role = "none"], "rerun")
    ELSE [w EXCEPT !.log.buttons = @ \cup {"logout"}]

\* The sidebar: the admin's "Pull All" button and the Logout button.
AppSidebar(w, inp) ==
    IF ~Running(w) THEN w
    ELSE AppLogout(AppPullAll(w, inp), inp)

\* The selection of the section, the subfolder and the file.  The widgets
\* offer what the local tree holds; a selection not on offer is no input.
AppSelect(w, inp) ==
    IF ~Running(w) THEN w
    ELSE LET current_root_dir == BASE_DIRS[inp.mode].folder
             subfolders == GetSubfolders(w.local, current_root_dir)
         IN IF subfolders = {} THEN End(w, "stop")
            ELSE IF inp.subfolder \notin subfolders THEN [w EXCEPT !.valid = FALSE]
            ELSE LET files == GetFiles(w.local, current_root_dir, inp.subfolder)
                 IN IF files = {} THEN End(w, "stop")
                    ELSE IF inp.file \notin files THEN [w EXCEPT !.valid = FALSE]
                    ELSE [w EXCEPT !.log.rel =
                            SomePath(current_root_dir \o <<inp.subfolder, inp.file>>)]

\* st.session_state.current_pdf = pdf; st.session_state.compilation_error = log
KeepResult(w) ==
    [w EXCEPT !.session.current_pdf = w.lastCompile.pdf,
              !.session.compilation_error = w.lastCompile.log]

\* st.session_state.last_processed = rel_path; force_recompile = False
Processed(w, rel_path) ==
    [w EXCEPT !.session.last_processed = SomePath(rel_path),
              !.session.force_recompile = FALSE]

\* The recompile block.
AppRecompile(w, inp) ==
    IF ~Running(w) THEN w
    ELSE LET rel_path == w.log.rel.path
             abs_path == Abspath(rel_path)
             file_ext == FileExt(Basename(rel_path))
             is_pdf == file_ext = "pdf"
             is_tex == file_ext = "tex"
             at == [w EXCEPT !.log.reached = TRUE, !.log.isTex = is_tex,
                             !.log.cachedFor = SomePath(rel_path)]
             reset == [at EXCEPT !.session.current_pdf = NoPath,
                                 !.session.compilation_error = NoLog]
         IN IF w.session.last_processed # SomePath(rel_path) \/ w.session.force_recompile
            THEN Processed(IF is_pdf
                           THEN [reset EXCEPT !.session.current_pdf = SomePath(abs_path)]
                           ELSE IF is_tex
                           THEN KeepResult(PageCompile(reset, abs_path, inp.out))
                           ELSE reset,
                           rel_path)
            ELSE at

\* The end of a press of the push button after the call returned.
AfterPush(w) ==
    IF w.lastPush.ok
    THEN End([w EXCEPT !.session.force_recompile = TRUE], "rerun")
    ELSE [w EXCEPT !.log.buttons = @ \cup {"push"}]

\* with open(abs_path, "w", encoding="utf-8") as f: f.write(new_content)
SaveLocal(w, rel_path, new_content) ==
    [w EXCEPT !.local = WriteFile(@, rel_path, Utf8Encode(new_content)),
              !.log.new_content = new_content]

\* The editor tab: the file is read; an admin gets the text area and the
\* push button, and a press with a changed text saves the text to the local
\* file and pushes it.
AppEditor(w, inp) ==
    IF ~Running(w) THEN w
    ELSE LET rel_path == w.log.rel.path
             file_ext == FileExt(Basename(rel_path))
         IN IF file_ext \in {"jpg", "jpeg", "png", "pdf"} THEN w
            ELSE LET read == Utf8Decode(w.local.files[rel_path])
                     file_content == read.text
                 IN IF ~read.ok THEN End(w, "error")
                    ELSE IF w.session.user_role # "admin" THEN w
                    ELSE IF inp.pressed # "push"
                    THEN [w EXCEPT !.log.buttons = @ \cup {"push"}]
                    ELSE IF inp.new_content = file_content
                    THEN [w EXCEPT !.log.buttons = @ \cup {"push"},
                                   !.log.noChanges = TRUE,
                                   !.log.new_content = inp.new_content]
                    ELSE AfterPush(PagePush(SaveLocal(w, rel_path, inp.new_content),
                                            rel_path, inp.new_content, inp.env))

\* One run of app.py from its top to its end: the record the run leaves,
\* as a set of one element.
RunApp(inp) ==
    LET before == [last_processed |-> session.last_processed,
                   force_recompile |-> session.force_recompile]
        s0 == {StartRun(inp.pressed, before)}
        s1 == {AppCheckLogin(w, inp) : w \in s0}
        s2 == {AppAutoPull(w) : w \in s1}
        s3 == {AppSidebar(w, inp) : w \in s2}
        s4 == {AppSelect(w, inp) : w \in s3}
        s5 == {AppRecompile(w, inp) : w \in s4}
        s6 == {AppEditor(w, inp) : w \in s5}
    IN {IF Running(w) THEN End(w, "done") ELSE w : w \in s6}

\* compile_latex of app1.py gets and returns relative paths.
CompiledRel(w, source_path, out, res) ==
    Compiled(w, source_path, out, res,
             IF res.pdf.isNone THEN NoPath
             ELSE SomePath(Append(TEMP_DIR, PdfName(res.job))))

\* A call of compile_latex from app1.py.
App1Compile(w, source_path, out) ==
    CompiledRel(w, source_path, out,
                CompileLatex(w.tempDir, source_path, out, w.compiles + 1))

\* What the compile trigger of app1.py keeps of the pair returned.
KeepResult1(w, source_path) ==
    IF ~w.lastCompile.pdf.isNone
    THEN [w EXCEPT !.session.current_pdf_path = w.lastCompile.pdf,
                   !.session.last_compiled_file = SomePath(source_path),
                   !.session.compilation_error = NoLog]
    ELSE [w EXCEPT !.session.current_pdf_path = NoPath,
                   !.session.compilation_error = w.lastCompile.log]

\* The selection of the topic and the file in app1.py.
App1Select(w, inp) ==
    LET topics == GetSubfolders(w.local, <<nTopics>>)
    IN IF topics = {} THEN End(w, "stop")
       ELSE IF inp.subfolder \notin topics THEN [w EXCEPT !.valid = FALSE]
       ELSE LET tex_files == GetTexFiles(w.local, inp.subfolder)
            IN IF tex_files = {} THEN End(w, "stop")
               ELSE IF inp.file \notin tex_files THEN [w EXCEPT !.valid = FALSE]
               ELSE [w EXCEPT !.log.rel = SomePath(<<nTopics, inp.subfolder, inp.file>>)]

\* The compile trigger of app1.py.
App1Trigger(w, inp) ==
    IF ~Running(w) THEN w
    ELSE LET source_path == w.log.rel.path
             at == [w EXCEPT !.log.reached = TRUE, !.log.isTex = TRUE,
                             !.log.cachedFor = SomePath(source_path)]
         IN IF w.session.last_compiled_file # SomePath(source_path)
            THEN KeepResult1(App1Compile(at, source_path, inp.out), source_path)
            ELSE at

\* The source tab of app1.py reads the file.
App1Source(w) ==
    IF ~Running(w) THEN w
    ELSE IF Utf8Decode(w.local.files[w.log.rel.path]).ok THEN w
    ELSE End(w, "error")

\* One run of app1.py from its top to its end, as a set of one element.
RunApp1(inp) ==
    LET before == [last_processed |-> session.last_compiled_file,
                   force_recompile |-> FALSE]
        s0 == {StartRun("none", before)}
        s1 == {App1Select(w, inp) : w \in s0}
        s2 == {App1Trigger(w, inp) : w \in s1}
        s3 == {App1Source(w) : w \in s2}
    IN {IF Running(w) THEN End(w, "done") ELSE w : w \in s3}

(***************************************************************************)
(* The sessions of the page.                                               *)
(***************************************************************************)
MaxRuns == 4

nSheet == <<"sheet", "pdf">>

\* The local tree when the session opens the page: nothing yet, an empty
\* Topics folder beside a Year folder, or a mirror with a PDF beside the
\* sources.
PageLocals ==
    { EmptyFs,
      [dirs |-> {<<nTopics>>, <<nYear>>, <<nYear, n2023>>},
       files |-> (pYearNotes :> OldBytes)],
      [dirs |-> {<<nTopics>>, <<nTopics, nK>>, <<nYear>>, <<nYear, n2023>>},
       files |-> (pTopicsNotes :> <<97>>) @@ (<<nTopics, nK, nSheet>> :> <<37>>)
                    @@ (pYearNotes :> <<97>>)] }

\* The repository holds the two sources and the picture; its host answers
\* or not.
PageRemotes ==
    {r \in RemoteStates :
        /\ r.listFault = {}
        /\ r.files[pTopicsNotes] = KB64
        /\ r.files[pTopicsDiagram] = KB64Bin
        /\ r.files[pTopicsIntro] = Absent
        /\ r.files[pYearNotes] = KB64}

PageDiskFaults == {NoDiskFault, [op |-> "rmtree", root |-> <<nYear>>]}

\* What the compiler does in a run of the page.
PageCompilerOutcomes ==
    {InvocationFault} \cup
    {o \in CompilerOutcomes :
        /\ ~o.raised
        /\ o.stdout # <<>> /\ o.stderr = <<>>
        /\ (o.returncode = 0) = (o.pdf = "written")}

PageTexts == {<<97>>, <<98>>}

PagePushEnvs ==
    {e \in PushEnvs : Cardinality({f \in {"fetchFault", "race", "updateFault"} : e[f]}) <= 1}

\* What the user and the environment put into one run.
PageInputs(pressed) ==
    [pressed : {pressed},
     password : IF pressed = "login"
                THEN {"admin_password", "viewer_password", "wrong"} ELSE {""},
     mode : 1..Len(BASE_DIRS),
     subfolder : {nK, n2023},
     file : {nNotes, nDiagram, nSheet},
     out : PageCompilerOutcomes,
     new_content : IF pressed = "push" THEN PageTexts ELSE {<<>>},
     env : IF pressed = "push" THEN PagePushEnvs ELSE {NoPushEnv}]

PageInit ==
    /\ script \in {"app", "app1"}
    /\ session = (IF script = "app" THEN NoSession ELSE NoSession1)
    /\ runs = 0
    /\ remote \in PageRemotes
    /\ diskFault \in PageDiskFaults
    /\ local \in PageLocals
    /\ lastRun = (IF script = "app" THEN FirstLoad ELSE FirstLoad1)
    /\ last = NoPull
    /\ prevAfter = NoTree
    /\ pulls = 0
    /\ tempDir = <<>>
    /\ lastCompile = NoCompile
    /\ compiles = 0
    /\ lastPush = NoPush
    /\ pushes = 0

\* The state a run leaves.
Finish(w) ==
    /\ w.valid
    /\ local' = w.local
    /\ remote' = w.remote
    /\ tempDir' = w.tempDir
    /\ session' = w.session
    /\ last' = w.last
    /\ prevAfter' = w.prevAfter
    /\ pulls' = w.pulls
    /\ lastCompile' = w.lastCompile
    /\ compiles' = w.compiles
    /\ lastPush' = w.lastPush
    /\ pushes' = w.pushes
    /\ lastRun' = w.log
    /\ runs' = runs + 1
    /\ UNCHANGED <<diskFault, script>>

\* A run of app.py after an interaction with a widget the page showed; a
\* press of a button leaves the selection as it was.
AppRun(pressed) ==
    /\ script = "app"
    /\ runs < MaxRuns
    /\ lastRun.ended # "rerun"
    /\ \E inp \in PageInputs(pressed) :
          /\ (pressed = "push") =>
                lastRun.rel = SomePath(BASE_DIRS[inp.mode].folder
                                          \o <<inp.subfolder, inp.file>>)
          /\ \E w \in RunApp(inp) : Finish(w)

\* The form's Login button with a password.
LoginRun ==
    /\ "login" \in lastRun.buttons
    /\ AppRun("login")

\* The "Pull All" button.
PullAllRun ==
    /\ "pull" \in lastRun.buttons
    /\ AppRun("pull")

\* The Logout button.
LogoutRun ==
    /\ "logout" \in lastRun.buttons
    /\ AppRun("logout")

\* The "Push to GitHub" button, with the text the text area holds.
PushRun ==
    /\ "push" \in lastRun.buttons
    /\ AppRun("push")

\* A run of app.py without a button: a change of the selection, or the run
\* that follows st.rerun().
ViewRun ==
    /\ script = "app"
    /\ runs < MaxRuns
    /\ \E inp \in PageInputs("none") : \E w \in RunApp(inp) : Finish(w)

\* A run of app1.py.
App1Run ==
    /\ script = "app1"
    /\ runs < MaxRuns
    /\ \E inp \in PageInputs("none") : \E w \in RunApp1(inp) : Finish(w)

PageNext == LoginRun \/ ViewRun \/ PullAllRun \/ LogoutRun \/ PushRun \/ App1Run

PageSpec == PageInit /\ [][PageNext]_vars

\* The Topics folder was missing or empty when the latest run started.
TopicsMissingOrEmpty ==
    \/ ~PathExists(lastRun.localBefore, BASE_DIRS[1].folder)
    \/ Listdir(lastRun.localBefore, BASE_DIRS[1].folder) = {}

C13_WitnessDisk ==
    /\ last.called /\ ~last.ok /\ last.msg.text = "rmtree failed"
    /\ lastRun.ended = "done"

\* C14 (as claimed): in every run of a page script that reaches the compile
\* block, compile_latex is invoked exactly when the selected file is a
\* LaTeX source and the selected path differs from the session's last
\* processed path or force_recompile is set; a run with the selection of
\* the run before and no forced recompile compiles nothing, also when the
\* cached result is a failure.
C14_CompileIffChangedOrForced ==
    lastRun.reached =>
        /\ lastRun.compiled <= 1
        /\ (lastRun.compiled = 1) <=>
              (/\ lastRun.isTex
               /\ \/ lastRun.before.last_processed # lastRun.rel
                  \/ lastRun.before.force_recompile)
        /\ (lastRun.cachedBefore = lastRun.rel /\ ~lastRun.before.force_recompile)
              => lastRun.compiled = 0

\* C14 for app.py alone.
C14_AppPy == (script = "app") => C14_CompileIffChangedOrForced

\* C15 (as claimed): pull_from_github and push_to_github are called only on
\* a button press of an admin session: a run of another role, or a run
\* without a press of "Pull All" or "Push to GitHub", calls neither and
\* leaves the local mirror and the remote repository as they were.
C15_OnlyAdminPress ==
    (lastRun.role # "admin" \/ lastRun.pressed \notin {"pull", "push"}) =>
        /\ lastRun.pulled = <<>>
        /\ lastRun.pushed = 0
        /\ local = lastRun.localBefore
        /\ remote = lastRun.remoteBefore

\* C15 (amended): push_to_github is called only on an admin's press of
\* "Push to GitHub", at most once a run; pull_from_github is called on an
\* admin's press of "Pull All", and at the start of every run of a logged-in
\* session, admin or viewer, that finds the Topics folder missing or empty,
\* and never otherwise; a run that calls neither leaves the local mirror
\* and the remote repository as they were.
C15_PressOrEmptyTopics ==
    /\ lastRun.pushed <= 1
    /\ lastRun.pushed = 1 => (lastRun.role = "admin" /\ lastRun.pressed = "push")
    /\ \A i \in 1..Len(lastRun.pulled) :
          /\ lastRun.pulled[i] = "button" =>
                (lastRun.role = "admin" /\ lastRun.pressed = "pull" /\ i = Len(lastRun.pulled))
          /\ lastRun.pulled[i] = "auto" =>
                (lastRun.role # "none" /\ TopicsMissingOrEmpty /\ i = 1)
    /\ (lastRun.role # "none" /\ TopicsMissingOrEmpty) =>
          (lastRun.pulled # <<>> /\ lastRun.pulled[1] = "auto")
    /\ (lastRun.pulled = <<>> /\ lastRun.pushed = 0) =>
          (local = lastRun.localBefore /\ remote = lastRun.remoteBefore)

\* C15 witness: a run of a viewer session, no button pressed, pulled and
\* wiped the Year folder the mirror held.
C15_Witness ==
    /\ lastRun.role = "viewer"
    /\ lastRun.pressed = "none"
    /\ lastRun.pulled = <<"auto">>
    /\ PathExists(lastRun.localBefore, pYearNotes)
    /\ local # lastRun.localBefore

\* C18 (as claimed): an edit saved to the local file by a push that failed
\* can be submitted again: when the latest push of a text to a file failed,
\* the local file holds the text and the remote file does not, a press of
\* the push button with that text submits it.
C18_FailedPushCanBeRepeated ==
    (/\ lastRun.pressed = "push"
     /\ lastRun.reached
     /\ lastPush.called /\ ~lastPush.ok
     /\ lastPush.path = lastRun.rel.path
     /\ lastPush.content = lastRun.new_content
     /\ Utf8Decode(local.files[lastRun.rel.path])
           = [ok |-> TRUE, text |-> lastRun.new_content]
     /\ remote.files[lastRun.rel.path] # KindOfText(lastRun.new_content))
        => (lastRun.pushed = 1 /\ ~lastRun.noChanges)

====
